---- MODULE Spec2Model ----
(***************************************************************************)
(* State-machine model of the cuckoo filter (CuckooFilter) and of the      *)
(* scalable Bloom filter (ScalableBloomFilter) of bloom-filters.           *)
(*                                                                         *)
(* Widths are scaled: the 64-bit hash is HashLen bits wide and the 32-bit  *)
(* truncation BigInt.asUintN(32, .) keeps HalfLen bits.  The hash library  *)
(* (xxh64) is a fixed deterministic function of (input, seed); every seed  *)
(* gives another hash function.  A random() draw is a number u in          *)
(* 0..RandDen-1 standing for the float u/RandDen.                          *)
(***************************************************************************)
EXTENDS Integers, Sequences, FiniteSets, TLC

VARIABLES
    cuckoo,      \* the CuckooFilter object: its fields
    status,      \* per element: "none", "added" (add returned true, remove never
                 \* called on it), "removed" (remove was called on it)
    lossy,       \* an add with destructive = true has failed
    call,        \* the last cuckoo call: operation, arguments, outcome
    sbf,         \* the ScalableBloomFilter object: its fields
    created,     \* arguments of each PartitionBloomFilter.create, in order
    sAdded,      \* elements passed to ScalableBloomFilter.add
    scall,       \* the last scalable call
    peer,        \* a second filter object, the argument of equals
    probe        \* arguments and progress of a call of a function under test

vars == <<cuckoo, status, lossy, call, sbf, created, sAdded, scall, peer, probe>>
cvars == <<cuckoo, status, lossy, call>>
svars == <<sbf, created, sAdded, scall>>
xvars == <<peer, probe>>

(***************************************************************************)
(* Bounds of the model.                                                    *)
(***************************************************************************)
NumElems == 2          \* elements are 1..NumElems
NumSeeds == 2          \* seeds are 0..NumSeeds-1
HalfLen == 3           \* bits kept by asUintN(32, .), scaled
RandDen == 4           \* resolution of random(): u/RandDen, u in 0..RandDen-1
MaxSlots == 4          \* a cuckoo filter holds at most MaxSlots slots

HashLen == 2 * HalfLen \* width of a hash, scaled from 64
Elems == 1..NumElems
Seeds == 0..(NumSeeds - 1)
RandVals == 0..(RandDen - 1)
DefaultSeed == 0

(***************************************************************************)
(* Arithmetic on bit strings and integers.                                 *)
(***************************************************************************)
RECURSIVE Pow(_, _)
Pow(b, n) == IF n = 0 THEN 1 ELSE b * Pow(b, n - 1)

HashMod == Pow(2, HashLen)

\* BigInt.asUintN(bits, v): the low `bits` bits of v
AsUintN(bits, v) == v % Pow(2, bits)

\* a ^ b on BigInt
RECURSIVE Xor(_, _)
Xor(a, b) ==
    IF a = 0 THEN b
    ELSE IF b = 0 THEN a
    ELSE (((a % 2) + (b % 2)) % 2) + 2 * Xor(a \div 2, b \div 2)

\* v.toString(2): most significant bit first, "0" for zero
RECURSIVE ToString2(_)
ToString2(v) == IF v < 2 THEN <<v>> ELSE Append(ToString2(v \div 2), (v % 2))

\* s.padStart(n, '0')
RECURSIVE PadStart(_, _)
PadStart(s, n) == IF Len(s) >= n THEN s ELSE PadStart(<<0>> \o s, n)

\* s.substring(from)
Substring(s, from) ==
    LET f == IF from < 0 THEN 0 ELSE IF from > Len(s) THEN Len(s) ELSE from
    IN  SubSeq(s, f + 1, Len(s))

\* value of a bit string read as a binary number
RECURSIVE BitsVal(_)
BitsVal(s) == IF s = <<>> THEN 0 ELSE 2 * BitsVal(SubSeq(s, 1, Len(s) - 1)) + s[Len(s)]

(***************************************************************************)
(* Hashing.  The hash library takes the bytes of its input; an element (a  *)
(* number of Elems) and a fingerprint (a string of bits) have their own    *)
(* byte sequences, here natural numbers.                                   *)
(***************************************************************************)
ElemBytes(e) == e - 1
StringBytes(s) == NumElems + Pow(2, Len(s)) - 1 + BitsVal(s)

\* xxh64(bytes, seed) of the hash library
XXH64(c, s) ==
    LET a == (c + 1) * (2 * s + 3) + (c \div 2) * (s + 1) + s * s + 5 * c * c
    IN  (a + (a \div HashMod)) % HashMod

(***************************************************************************)
(* utils: getNearestPow2, randomInt, exportBigInt, importBigInt.           *)
(***************************************************************************)
\* the smallest power of two that is at least x
RECURSIVE NearestPow2From(_, _)
NearestPow2From(x, p) == IF p >= x THEN p ELSE NearestPow2From(x, 2 * p)
getNearestPow2(x) == NearestPow2From(x, 1)

\* randomInt(min, max, random) for the draw u/RandDen
randomInt(min, max, u) == min + ((u * (max - min + 1)) \div RandDen)

\* a seed as its decimal digits, and back
RECURSIVE Digits(_)
Digits(n) == IF n < 10 THEN <<n>> ELSE Append(Digits(n \div 10), (n % 10))
RECURSIVE DigitsVal(_)
DigitsVal(d) == IF d = <<>> THEN 0 ELSE 10 * DigitsVal(SubSeq(d, 1, Len(d) - 1)) + d[Len(d)]
exportBigInt(n) == [type |-> "BigInt", value |-> Digits(n)]
importBigInt(e) == DigitsVal(e.value)

(***************************************************************************)
(* Bucket: a fixed number of slots, each null or a fingerprint.            *)
(***************************************************************************)
Null == <<-1>>

NewBucket(size) ==
    [_size |-> size, _elements |-> [i \in 1..size |-> Null], _length |-> 0]

BucketIsFree(b) == b._length < b._size

\* indexOf(elements, e), 0-based, -1 when absent
IndexOf(elements, e) ==
    IF \E i \in 1..Len(elements) : elements[i] = e
    THEN (CHOOSE i \in 1..Len(elements) :
             /\ elements[i] = e
             /\ \A j \in 1..(i - 1) : elements[j] # e) - 1
    ELSE -1

BucketAt(b, index) == b._elements[index + 1]
BucketSet(b, index, e) == [b EXCEPT !._elements[index + 1] = e]

BucketAdd(b, e) ==
    IF e = Null \/ ~BucketIsFree(b) THEN b
    ELSE [BucketSet(b, IndexOf(b._elements, Null), e) EXCEPT !._length = @ + 1]

BucketHas(b, e) == IndexOf(b._elements, e) > -1

BucketRemove(b, e) ==
    LET index == IndexOf(b._elements, e)
    IN  IF index <= -1 THEN b
        ELSE [BucketSet(b, index, Null) EXCEPT !._length = @ - 1]

BucketEquals(a, b) ==
    /\ a._size = b._size
    /\ a._length = b._length
    /\ \A i \in 1..Len(a._elements) :
          i <= Len(b._elements) /\ a._elements[i] = b._elements[i]

BucketSaveAsJSON(b) == [_size |-> b._size, _elements |-> b._elements]

BucketFromJSON(e) ==
    LET stored == {i \in 1..Len(e._elements) : e._elements[i] # Null}
    IN  [_size |-> e._size,
         _elements |-> [i \in 1..e._size |->
                          IF i \in stored THEN e._elements[i] ELSE Null],
         _length |-> Cardinality(stored)]

(***************************************************************************)
(* CuckooFilter.                                                           *)
(***************************************************************************)
\* A constructor that keeps the requested size instead of rounding it to a power
\* of two: the variant against which the partial-key symmetry is tested.
CuckooFilterExactSize(size, fingerprintSize, bucketSize, maxKicks) ==
    LET s == AsUintN(HalfLen, size)
    IN  [_filter |-> [i \in 1..s |-> NewBucket(bucketSize)],
         _size |-> s,
         _bucketSize |-> bucketSize,
         _fingerprintLength |-> fingerprintSize,
         _length |-> 0,
         _maxKicks |-> maxKicks,
         _seed |-> DefaultSeed]

CuckooFilter(size, fingerprintSize, bucketSize, maxKicks) ==
    LET s == AsUintN(HalfLen, getNearestPow2(size))
    IN  [_filter |-> [i \in 1..s |-> NewBucket(bucketSize)],
         _size |-> s,
         _bucketSize |-> bucketSize,
         _fingerprintLength |-> fingerprintSize,
         _length |-> 0,
         _maxKicks |-> maxKicks,
         _seed |-> DefaultSeed]

\* hash(element): xxh64 of the input under the filter's seed
Hash(f, bytes) == XXH64(bytes, f._seed)

\* An index update that goes to the next bucket whatever the fingerprint: the
\* variant against which the location of the kicked fingerprints is tested.
KickIndexNext(f, index, tmp) == (index + 1) % f._size

\* the index update of the eviction loop: i = i ^ hash(fingerprint)
KickIndex(f, index, tmp) ==
    AsUintN(HalfLen, Xor(index, Hash(f, StringBytes(tmp)))) % f._size

\* _locations without the padding of the hash string to the hash length: the
\* variant against which the failure condition of has and remove is tested.
LocationsUnpadded(f, element) ==
    LET hash == Hash(f, ElemBytes(element))
        hashstr == ToString2(hash)
        fingerprint == Substring(hashstr, Len(hashstr) - f._fingerprintLength)
        firstIndex == hash
        secondIndex == Xor(firstIndex, Hash(f, StringBytes(fingerprint)))
    IN  IF f._fingerprintLength > Len(hashstr)
        THEN [throws |-> TRUE, fingerprint |-> <<>>, firstIndex |-> 0, secondIndex |-> 0]
        ELSE [throws |-> FALSE,
              fingerprint |-> fingerprint,
              firstIndex |-> AsUintN(HalfLen, firstIndex) % f._size,
              secondIndex |-> AsUintN(HalfLen, secondIndex) % f._size]

\* _locations(element); throws when the fingerprint is longer than the hash.
\* With _size = 0 both indexes are NaN (x % 0) and every caller then throws on
\* this._filter[NaN]: that case is reported as a throw as well.
Locations(f, element) ==
    LET hash == Hash(f, ElemBytes(element))
        hashstr == PadStart(ToString2(hash), HashLen)
        fingerprint == Substring(hashstr, Len(hashstr) - f._fingerprintLength)
        firstIndex == hash
        secondIndex == Xor(firstIndex, Hash(f, StringBytes(fingerprint)))
    IN  IF f._fingerprintLength > Len(hashstr) \/ f._size = 0
        THEN [throws |-> TRUE, fingerprint |-> <<>>, firstIndex |-> 0, secondIndex |-> 0]
        ELSE [throws |-> FALSE,
              fingerprint |-> fingerprint,
              firstIndex |-> AsUintN(HalfLen, firstIndex) % f._size,
              secondIndex |-> AsUintN(HalfLen, secondIndex) % f._size]

\* A store that writes the first slot of the bucket whatever it holds: the
\* variant against which the bucket capacity rule is tested.
AddToBucketOverwrite(f, index, fingerprint) ==
    [f EXCEPT !._filter[index + 1] = BucketSet(@, 0, fingerprint)]

\* this._filter[index].add(fingerprint)
AddToBucket(f, index, fingerprint) ==
    [f EXCEPT !._filter[index + 1] = BucketAdd(@, fingerprint)]

\* A rollback that replays the log from its first entry: the variant against
\* which the restoration of slots written several times is tested.
RECURSIVE RollbackInOrder(_, _)
RollbackInOrder(f, logs) ==
    IF logs = <<>> THEN f
    ELSE LET log == logs[1]
         IN  RollbackInOrder([f EXCEPT !._filter[log[1] + 1] = BucketSet(@, log[2], log[3])],
                             Tail(logs))

\* The rollback: pop the log and restore every written slot.
RECURSIVE Rollback(_, _)
Rollback(f, logs) ==
    IF logs = <<>> THEN f
    ELSE LET log == logs[Len(logs)]
         IN  Rollback([f EXCEPT !._filter[log[1] + 1] = BucketSet(@, log[2], log[3])],
                      SubSeq(logs, 1, Len(logs) - 1))

\* An exhausted add that never rolls back: the variant against which the state
\* at the filter-is-full error is tested.
ExhaustedKeepsWrites(f, logs, throwError, destructive) ==
    [filter |-> f,
     ret |-> IF throwError THEN "full" ELSE "false",
     logs |-> logs]

\* An exhausted add that rolls back whatever destructive is: the variant
\* against which the effect of a destructive failure is tested.
ExhaustedAlwaysRollback(f, logs, throwError, destructive) ==
    [filter |-> Rollback(f, logs),
     ret |-> IF throwError THEN "full" ELSE "false",
     logs |-> logs]

\* What add does once the loop has run out of kicks.
Exhausted(f, logs, throwError, destructive) ==
    [filter |-> IF ~destructive THEN Rollback(f, logs) ELSE f,
     ret |-> IF throwError THEN "full" ELSE "false",
     logs |-> logs]

\* An eviction loop that stops one iteration late: the variant against which
\* the bound on the kicks is tested.
RECURSIVE EvictOneMore(_, _, _, _, _, _, _)
EvictOneMore(f, fingerprint, index, nbTry, logs, throwError, destructive) ==
    IF nbTry > f._maxKicks
    THEN {Exhausted(f, logs, throwError, destructive)}
    ELSE UNION {
        LET tmp == BucketAt(f._filter[index + 1], rndIndex)
            logs2 == Append(logs, <<index, rndIndex, tmp>>)
            f2 == [f EXCEPT !._filter[index + 1] = BucketSet(@, rndIndex, fingerprint)]
            index2 == KickIndex(f, index, tmp)
        IN  IF BucketIsFree(f2._filter[index2 + 1])
            THEN {[filter |-> [AddToBucket(f2, index2, tmp) EXCEPT !._length = @ + 1],
                   ret |-> "true",
                   logs |-> logs2]}
            ELSE EvictOneMore(f2, tmp, index2, nbTry + 1, logs2, throwError, destructive)
        : rndIndex \in {randomInt(0, f._filter[index + 1]._length - 1, u) : u \in RandVals} }

\* The eviction loop from iteration nbTry on, over every draw of random():
\* the set of outcomes [filter, ret, logs].
RECURSIVE Evict(_, _, _, _, _, _, _)
Evict(f, fingerprint, index, nbTry, logs, throwError, destructive) ==
    IF nbTry >= f._maxKicks
    THEN {Exhausted(f, logs, throwError, destructive)}
    ELSE UNION {
        LET tmp == BucketAt(f._filter[index + 1], rndIndex)
            logs2 == Append(logs, <<index, rndIndex, tmp>>)
            f2 == [f EXCEPT !._filter[index + 1] = BucketSet(@, rndIndex, fingerprint)]
            index2 == KickIndex(f, index, tmp)
        IN  IF BucketIsFree(f2._filter[index2 + 1])
            THEN {[filter |-> [AddToBucket(f2, index2, tmp) EXCEPT !._length = @ + 1],
                   ret |-> "true",
                   logs |-> logs2]}
            ELSE Evict(f2, tmp, index2, nbTry + 1, logs2, throwError, destructive)
        : rndIndex \in {randomInt(0, f._filter[index + 1]._length - 1, u) : u \in RandVals} }

\* An add that tries the second bucket before the first: the variant against
\* which the placement order is tested.
CuckooAddSecondFirst(f, element, throwError, destructive) ==
    LET locations == Locations(f, element)
    IN  IF locations.throws
        THEN {[filter |-> f, ret |-> "error", logs |-> <<>>]}
        ELSE IF BucketIsFree(f._filter[locations.secondIndex + 1])
        THEN {[filter |-> [AddToBucket(f, locations.secondIndex, locations.fingerprint)
                             EXCEPT !._length = @ + 1],
               ret |-> "true", logs |-> <<>>]}
        ELSE IF BucketIsFree(f._filter[locations.firstIndex + 1])
        THEN {[filter |-> [AddToBucket(f, locations.firstIndex, locations.fingerprint)
                             EXCEPT !._length = @ + 1],
               ret |-> "true", logs |-> <<>>]}
        ELSE UNION {
            Evict(f, locations.fingerprint, index, 0, <<>>, throwError, destructive)
            : index \in {IF 2 * u < RandDen THEN locations.firstIndex
                                            ELSE locations.secondIndex : u \in RandVals} }

\* add(element, throwError, destructive): the set of outcomes over every draw.
\* ret is "true", "false", "full" (the filter-is-full error) or "error" (the
\* error of _locations).
CuckooAdd(f, element, throwError, destructive) ==
    LET locations == Locations(f, element)
    IN  IF locations.throws
        THEN {[filter |-> f, ret |-> "error", logs |-> <<>>]}
        ELSE IF BucketIsFree(f._filter[locations.firstIndex + 1])
        THEN {[filter |-> [AddToBucket(f, locations.firstIndex, locations.fingerprint)
                             EXCEPT !._length = @ + 1],
               ret |-> "true", logs |-> <<>>]}
        ELSE IF BucketIsFree(f._filter[locations.secondIndex + 1])
        THEN {[filter |-> [AddToBucket(f, locations.secondIndex, locations.fingerprint)
                             EXCEPT !._length = @ + 1],
               ret |-> "true", logs |-> <<>>]}
        ELSE UNION {
            Evict(f, locations.fingerprint, index, 0, <<>>, throwError, destructive)
            : index \in {IF 2 * u < RandDen THEN locations.firstIndex
                                            ELSE locations.secondIndex : u \in RandVals} }

\* A remove that forgets _length-- when it finds the fingerprint in the second
\* bucket: the variant against which the count of the entries is tested.
CuckooRemoveKeepsLength(f, element) ==
    LET locations == Locations(f, element)
    IN  IF locations.throws THEN [filter |-> f, ret |-> "error"]
        ELSE IF BucketHas(f._filter[locations.firstIndex + 1], locations.fingerprint)
        THEN [filter |-> [f EXCEPT
                             !._filter[locations.firstIndex + 1] =
                                 BucketRemove(@, locations.fingerprint),
                             !._length = @ - 1],
              ret |-> "true"]
        ELSE IF BucketHas(f._filter[locations.secondIndex + 1], locations.fingerprint)
        THEN [filter |-> [f EXCEPT
                             !._filter[locations.secondIndex + 1] =
                                 BucketRemove(@, locations.fingerprint)],
              ret |-> "true"]
        ELSE [filter |-> f, ret |-> "false"]

\* A remove that looks in the second bucket before the first: the variant
\* against which the order of removal is tested.
CuckooRemoveSecondFirst(f, element) ==
    LET locations == Locations(f, element)
    IN  IF locations.throws THEN [filter |-> f, ret |-> "error"]
        ELSE IF BucketHas(f._filter[locations.secondIndex + 1], locations.fingerprint)
        THEN [filter |-> [f EXCEPT
                             !._filter[locations.secondIndex + 1] =
                                 BucketRemove(@, locations.fingerprint),
                             !._length = @ - 1],
              ret |-> "true"]
        ELSE IF BucketHas(f._filter[locations.firstIndex + 1], locations.fingerprint)
        THEN [filter |-> [f EXCEPT
                             !._filter[locations.firstIndex + 1] =
                                 BucketRemove(@, locations.fingerprint),
                             !._length = @ - 1],
              ret |-> "true"]
        ELSE [filter |-> f, ret |-> "false"]

\* remove(element): [filter, ret]
CuckooRemove(f, element) ==
    LET locations == Locations(f, element)
    IN  IF locations.throws THEN [filter |-> f, ret |-> "error"]
        ELSE IF BucketHas(f._filter[locations.firstIndex + 1], locations.fingerprint)
        THEN [filter |-> [f EXCEPT
                             !._filter[locations.firstIndex + 1] =
                                 BucketRemove(@, locations.fingerprint),
                             !._length = @ - 1],
              ret |-> "true"]
        ELSE IF BucketHas(f._filter[locations.secondIndex + 1], locations.fingerprint)
        THEN [filter |-> [f EXCEPT
                             !._filter[locations.secondIndex + 1] =
                                 BucketRemove(@, locations.fingerprint),
                             !._length = @ - 1],
              ret |-> "true"]
        ELSE [filter |-> f, ret |-> "false"]

\* A has that looks in the first bucket only: the variant against which the
\* absence of false negatives is tested.
CuckooHasFirstOnly(f, element) ==
    LET locations == Locations(f, element)
    IN  IF locations.throws THEN "error"
        ELSE IF BucketHas(f._filter[locations.firstIndex + 1], locations.fingerprint)
        THEN "true"
        ELSE "false"

\* has(element): "true", "false" or "error"
CuckooHas(f, element) ==
    LET locations == Locations(f, element)
    IN  IF locations.throws THEN "error"
        ELSE IF \/ BucketHas(f._filter[locations.firstIndex + 1], locations.fingerprint)
                \/ BucketHas(f._filter[locations.secondIndex + 1], locations.fingerprint)
        THEN "true"
        ELSE "false"

\* this.equals(filter): "error" when filter has fewer buckets than this
RECURSIVE EqualsFrom(_, _, _)
EqualsFrom(this, filter, i) ==
    IF i >= Len(this._filter) THEN "true"
    ELSE IF i >= Len(filter._filter) THEN "error"
    ELSE IF ~BucketEquals(filter._filter[i + 1], this._filter[i + 1]) THEN "false"
    ELSE EqualsFrom(this, filter, i + 1)
CuckooEquals(this, filter) == EqualsFrom(this, filter, 0)

CuckooSaveAsJSON(f) ==
    [_size |-> f._size,
     _fingerprintLength |-> f._fingerprintLength,
     _length |-> f._length,
     _maxKicks |-> f._maxKicks,
     _filter |-> [i \in 1..Len(f._filter) |-> BucketSaveAsJSON(f._filter[i])],
     _seed |-> exportBigInt(f._seed),
     _bucketSize |-> f._bucketSize]

\* An import that leaves _length at the constructor's 0: the variant against
\* which the round trip is tested.
CuckooFromJSONNoLength(element) ==
    LET filter == CuckooFilter(element._size, element._fingerprintLength,
                               element._bucketSize, element._maxKicks)
    IN  [filter EXCEPT
            !._seed = importBigInt(element._seed),
            !._filter = [i \in 1..Len(element._filter) |->
                            BucketFromJSON(element._filter[i])]]

\* fromJSON(json)
CuckooFromJSON(element) ==
    LET filter == CuckooFilter(element._size, element._fingerprintLength,
                               element._bucketSize, element._maxKicks)
    IN  [filter EXCEPT
            !._seed = importBigInt(element._seed),
            !._length = element._length,
            !._filter = [i \in 1..Len(element._filter) |->
                            BucketFromJSON(element._filter[i])]]

\* _computeHashTableLoad(): used, free, size; load is used / size
ComputeHashTableLoad(f) ==
    LET max == Len(f._filter) * f._bucketSize
        RECURSIVE UsedUpTo(_)
        UsedUpTo(i) == IF i = 0 THEN 0 ELSE UsedUpTo(i - 1) + f._filter[i]._length
        used == UsedUpTo(Len(f._filter))
    IN  [used |-> used, free |-> max - used, size |-> max]

(***************************************************************************)
(* The cuckoo filter as a state machine: construction, then any sequence   *)
(* of calls.  `call` records the last call and its outcome.                *)
(***************************************************************************)
\* fingerprint lengths given to the constructor: two that fit the hash, one that
\* does not; and the values of maxKicks
FpLens == {2, 3, HashLen + 1}
KickLimits == 0..2

\* constructor arguments: at most MaxSlots slots in all
Shapes ==
    {sh \in (1..MaxSlots) \X (1..MaxSlots) : getNearestPow2(sh[1]) * sh[2] <= MaxSlots}

NoCall == [op |-> "new", ret |-> "none", throwError |-> FALSE, destructive |-> FALSE,
           kicks |-> 0, rewrote |-> FALSE]

\* some slot was written more than once
Rewrote(logs) ==
    \E i, j \in 1..Len(logs) : i < j /\ logs[i][1] = logs[j][1] /\ logs[i][2] = logs[j][2]

CuckooInit ==
    /\ \E sh \in Shapes, fl \in FpLens, mk \in KickLimits :
          cuckoo = CuckooFilter(sh[1], fl, sh[2], mk)
    /\ status = [x \in Elems |-> "none"]
    /\ lossy = FALSE
    /\ call = NoCall
    /\ sbf = <<>>
    /\ created = <<>>
    /\ sAdded = {}
    /\ scall = <<>>
    /\ peer = <<>>
    /\ probe = <<>>

\* filter.add(x, throwError, destructive)
Add ==
    \E x \in Elems, throwError \in BOOLEAN, destructive \in BOOLEAN :
    \E out \in CuckooAdd(cuckoo, x, throwError, destructive) :
        /\ cuckoo' = out.filter
        /\ call' = [op |-> "add", ret |-> out.ret, throwError |-> throwError,
                    destructive |-> destructive, kicks |-> Len(out.logs),
                    rewrote |-> Rewrote(out.logs)]
        /\ UNCHANGED <<status, lossy, svars, xvars>>

\* filter.remove(x)
Remove ==
    \E x \in Elems :
        LET out == CuckooRemove(cuckoo, x)
        IN  /\ cuckoo' = out.filter
            /\ call' = [NoCall EXCEPT !.op = "remove", !.ret = out.ret]
            /\ UNCHANGED <<status, lossy, svars, xvars>>

\* filter.has(x)
Has ==
    \E x \in Elems :
        /\ call' = [NoCall EXCEPT !.op = "has", !.ret = CuckooHas(cuckoo, x)]
        /\ UNCHANGED <<cuckoo, status, lossy, svars, xvars>>

\* filter.seed = s
SetSeed ==
    \E s \in Seeds :
        /\ cuckoo._length = 0
        /\ cuckoo' = [cuckoo EXCEPT !._seed = s]
        /\ call' = [NoCall EXCEPT !.op = "seed"]
        /\ UNCHANGED <<status, lossy, svars, xvars>>

\* filter = CuckooFilter.fromJSON(filter.saveAsJSON())
Reload ==
    /\ cuckoo' = CuckooFromJSON(CuckooSaveAsJSON(cuckoo))
    /\ call' = [NoCall EXCEPT !.op = "fromJSON", !.ret = CuckooEquals(cuckoo', cuckoo)]
    /\ UNCHANGED <<status, lossy, svars, xvars>>

CuckooNext == Add \/ Remove \/ Has \/ SetSeed \/ Reload

SpecCuckoo == CuckooInit /\ [][CuckooNext]_vars

(***************************************************************************)
(* The same calls with the history of each element kept instead of the     *)
(* last call: which elements were added, on which remove was called.       *)
(* The seed is assigned only before the first call, so the filter is never *)
(* reseeded.  lossy never becomes false again: the history is followed up  *)
(* to the first failed add with destructive = true.                        *)
(***************************************************************************)
Followed == ~lossy

HistAdd ==
    \E x \in Elems, throwError \in BOOLEAN, destructive \in BOOLEAN :
    \E out \in CuckooAdd(cuckoo, x, throwError, destructive) :
        /\ Followed
        /\ cuckoo' = out.filter
        /\ status' = IF out.ret = "true" /\ status[x] = "none"
                     THEN [status EXCEPT ![x] = "added"]
                     ELSE status
        /\ lossy' = (destructive /\ out.ret \in {"false", "full"})
        /\ UNCHANGED <<call, svars, xvars>>

HistRemove ==
    \E x \in Elems :
        /\ Followed
        /\ cuckoo' = CuckooRemove(cuckoo, x).filter
        /\ status' = [status EXCEPT ![x] = "removed"]
        /\ UNCHANGED <<lossy, call, svars, xvars>>

HistSetSeed ==
    \E s \in Seeds :
        /\ Followed
        /\ \A x \in Elems : status[x] = "none"
        /\ cuckoo' = [cuckoo EXCEPT !._seed = s]
        /\ UNCHANGED <<status, lossy, call, svars, xvars>>

HistNext == HistAdd \/ HistRemove \/ HistSetSeed

SpecCuckooHist == CuckooInit /\ [][HistNext]_vars

(***************************************************************************)
(* Claims on the cuckoo filter.                                            *)
(***************************************************************************)
IsAdd(c) == c.op = "add"

\* C1: when add(x, throwError = false, destructive = false) returns false, every
\* bucket, slot by slot, and _length are what they were before the call.
C1_RollbackRestores ==
    [][(IsAdd(call') /\ call'.ret = "false" /\ ~call'.destructive) => cuckoo' = cuckoo]_vars

\* a failed add without destructive that kicked at least twice and wrote some
\* slot more than once
C1_Witness ==
    /\ IsAdd(call) /\ call.ret = "false" /\ ~call.destructive
    /\ call.kicks >= 2 /\ call.rewrote

\* x has a fingerprint and the two candidate buckets hold it in no slot
Absent(f, x) ==
    LET loc == Locations(f, x)
    IN  /\ ~loc.throws
        /\ \A index \in {loc.firstIndex, loc.secondIndex} :
              \A slot \in 1..f._bucketSize :
                  f._filter[index + 1]._elements[slot] # loc.fingerprint

\* the last has or remove returned a boolean; has and remove answer false for
\* an element whose fingerprint is absent
NeverFail(f) ==
    /\ (call.op \in {"has", "remove"} => call.ret \in {"true", "false"})
    /\ \A x \in Elems :
          Absent(f, x) => CuckooHas(f, x) = "false" /\ CuckooRemove(f, x).ret = "false"

C6_Original ==
    [][(IsAdd(call') /\ call'.ret = "full")
          => (call'.kicks = cuckoo._maxKicks /\ cuckoo' = cuckoo)]_vars

\* C6 amended: when add throws "filter is full", maxKicks kicks were made and
\* _length and every bucket's length are those before the call; the buckets'
\* contents are those before the call when destructive is false.
C6_FullAfterMaxKicks ==
    [][(IsAdd(call') /\ call'.ret = "full")
          => /\ call'.kicks = cuckoo._maxKicks
             /\ cuckoo'._length = cuckoo._length
             /\ \A i \in 1..cuckoo._size :
                   cuckoo'._filter[i]._length = cuckoo._filter[i]._length
             /\ (~call'.destructive => cuckoo' = cuckoo)]_vars

\* add threw "filter is full" after two kicks, without destructive
C6_Witness ==
    /\ IsAdd(call) /\ call.ret = "full" /\ ~call.destructive
    /\ call.kicks = cuckoo._maxKicks /\ call.kicks >= 2

\* C7: g = fromJSON(f.saveAsJSON()) equals f and has f's _size, _bucketSize,
\* _fingerprintLength, _maxKicks, _seed and _length.
C7_RoundTrip ==
    [][call'.op = "fromJSON"
          => /\ call'.ret = "true"
             /\ cuckoo'._size = cuckoo._size
             /\ cuckoo'._bucketSize = cuckoo._bucketSize
             /\ cuckoo'._fingerprintLength = cuckoo._fingerprintLength
             /\ cuckoo'._maxKicks = cuckoo._maxKicks
             /\ cuckoo'._seed = cuckoo._seed
             /\ cuckoo'._length = cuckoo._length]_vars

\* a filter was reloaded that has a seed of its own, stores a fingerprint and
\* has a bucket with an empty slot before a used one
C7_Witness ==
    /\ call.op = "fromJSON"
    /\ cuckoo._seed # DefaultSeed
    /\ cuckoo._length > 0
    /\ \E i \in 1..cuckoo._size :
          /\ cuckoo._bucketSize >= 2
          /\ cuckoo._filter[i]._elements[1] = Null
          /\ cuckoo._filter[i]._elements[2] # Null

\* x's fingerprint is stored in bucket index
Holds(f, index, x) == BucketHas(f._filter[index + 1], Locations(f, x).fingerprint)

\* C4: secondIndex = (firstIndex xor (hash(fingerprint) mod _size)) mod _size,
\* and the index update of the eviction loop maps each of the two buckets of an
\* element to the other.
C4_PartialKeySymmetry ==
    \A x \in Elems :
        LET loc == Locations(cuckoo, x)
            h == Hash(cuckoo, StringBytes(loc.fingerprint))
        IN  ~loc.throws =>
              /\ loc.secondIndex
                    = Xor(loc.firstIndex, h % cuckoo._size) % cuckoo._size
              /\ KickIndex(cuckoo, loc.firstIndex, loc.fingerprint) = loc.secondIndex
              /\ KickIndex(cuckoo, loc.secondIndex, loc.fingerprint) = loc.firstIndex

\* an add went through a kick and succeeded, in a filter where some element has
\* two different buckets
C4_Witness ==
    /\ IsAdd(call) /\ call.ret = "true" /\ call.kicks >= 1
    /\ \E x \in Elems :
          /\ ~Locations(cuckoo, x).throws
          /\ Locations(cuckoo, x).firstIndex # Locations(cuckoo, x).secondIndex

\* x and y have the same fingerprint and the same candidate buckets
Collide(f, x, y) ==
    LET lx == Locations(f, x)
        ly == Locations(f, y)
    IN  /\ lx.fingerprint = ly.fingerprint
        /\ {lx.firstIndex, lx.secondIndex} = {ly.firstIndex, ly.secondIndex}

Milli == 1000
LN2Milli == 693
GrowthBase == 2

CeilDiv(a, b) == (a + b - 1) \div b

Rate(num, den) == [num |-> num, den |-> den]
RateMul(a, b) == Rate(a.num * b.num, a.den * b.den)
RECURSIVE RatePow(_, _)
RatePow(a, n) == IF n = 0 THEN Rate(1, 1) ELSE RateMul(a, RatePow(a, n - 1))
RateEq(a, b) == a.num * b.den = b.num * a.den

\* Math.ceil(Math.log2(1 / p))
RECURSIVE Log2CeilFrom(_, _)
Log2CeilFrom(p, k) == IF p.num * Pow(2, k) >= p.den THEN k ELSE Log2CeilFrom(p, k + 1)
Log2Ceil(p) == Log2CeilFrom(p, 0)

\* |ln p| in thousandths; the rates of the model are powers of 1/2, for which
\* |ln p| = log2(1/p) * ln 2
AbsLnMilli(p) == Log2Ceil(p) * LN2Milli

(***************************************************************************)
(* The hashing service: the two halves of the hash and double hashing.     *)
(***************************************************************************)
hashIntAndString(element, seed) ==
    LET h == XXH64(ElemBytes(element), seed)
    IN  [first |-> h % Pow(2, HalfLen), second |-> h \div Pow(2, HalfLen)]

doubleHashing(i, a, b, size) ==
    (a + i * b + ((i * i * i - i) \div 6)) % size

\* one index per partition
getIndexes(element, size, count, seed) ==
    LET hashes == hashIntAndString(element, seed)
    IN  [i \in 1..count |-> doubleHashing(i - 1, hashes.first, hashes.second, size)]

(***************************************************************************)
(* The bit vector, kept as the set of the indexes of its set bits, and its *)
(* exported form {size, content}: the content lists every bit.             *)
(***************************************************************************)
NewBitSet(size) == [size |-> size, bits |-> {}]
BitSetAdd(b, index) == [b EXCEPT !.bits = @ \cup {index}]
BitSetHas(b, index) == index \in b.bits
BitCount(b) == Cardinality(b.bits)

BitSetExport(b) ==
    [size |-> b.size,
     content |-> [i \in 1..b.size |-> IF (i - 1) \in b.bits THEN 1 ELSE 0]]
BitSetImport(e) ==
    [size |-> e.size,
     bits |-> {i \in 0..(e.size - 1) : e.content[i + 1] = 1}]

(***************************************************************************)
(* PartitionBloomFilter: k bit vectors of the same length, one bit of each *)
(* per element.                                                            *)
(***************************************************************************)
\* create(n, p, ratio): k = ceil(log2(1/p)) partitions of
\* ceil(n * |ln p| / (k * (ln 2)^2)) / ratio bits each
PartitionCreate(size, errorRate, ratio) ==
    LET k == Log2Ceil(errorRate)
        m == CeilDiv(size * AbsLnMilli(errorRate), k * LN2Milli * LN2Milli)
                * (ratio.den \div ratio.num)
    IN  [_size |-> k * m,
         _nbHashes |-> k,
         _loadFactor |-> ratio,
         _filter |-> [i \in 1..k |-> NewBitSet(m)],
         _capacity |-> size,
         _seed |-> DefaultSeed]

PartitionIndexes(f, element) ==
    getIndexes(element, f._filter[1].size, f._nbHashes, f._seed)

PartitionAdd(f, element) ==
    LET indexes == PartitionIndexes(f, element)
    IN  [f EXCEPT !._filter = [i \in 1..f._nbHashes |-> BitSetAdd(@[i], indexes[i])]]

PartitionHas(f, element) ==
    LET indexes == PartitionIndexes(f, element)
    IN  \A i \in 1..f._nbHashes : BitSetHas(f._filter[i], indexes[i])

\* number of set bits over all partitions
RECURSIVE UsedFrom(_, _)
UsedFrom(f, i) == IF i > f._nbHashes THEN 0 ELSE BitCount(f._filter[i]) + UsedFrom(f, i + 1)

\* _currentload(): the mean ratio of set bits, as a fraction
CurrentLoad(f) == Rate(UsedFrom(f, 1), f._size)

PartitionEquals(a, b) ==
    /\ a._size = b._size
    /\ a._nbHashes = b._nbHashes
    /\ a._loadFactor = b._loadFactor
    /\ a._seed = b._seed
    /\ a._filter = b._filter

PartitionSaveAsJSON(f) ==
    [_seed |-> exportBigInt(f._seed),
     _size |-> f._size,
     _nbHashes |-> f._nbHashes,
     _loadFactor |-> f._loadFactor,
     _filter |-> [i \in 1..Len(f._filter) |-> BitSetExport(f._filter[i])],
     _capacity |-> f._capacity]

PartitionFromJSON(e) ==
    [_size |-> e._size,
     _nbHashes |-> e._nbHashes,
     _loadFactor |-> e._loadFactor,
     _filter |-> [i \in 1..Len(e._filter) |-> BitSetImport(e._filter[i])],
     _capacity |-> e._capacity,
     _seed |-> importBigInt(e._seed)]

(***************************************************************************)
(* ScalableBloomFilter.                                                    *)
(***************************************************************************)
\* filter.seed = seed, on an inner filter
WithSeed(f, seed) == [f EXCEPT !._seed = seed]

\* the constructor: one inner filter, built with the initial size
ScalableBloomFilter(initial_size, error_rate, ratio) ==
    [_initial_size |-> initial_size,
     _error_rate |-> error_rate,
     _ratio |-> ratio,
     _seed |-> DefaultSeed,
     _filters |-> <<WithSeed(PartitionCreate(initial_size, error_rate, ratio),
                             DefaultSeed)>>]

\* A seed setter that keeps the seed to the scalable filter: the variant
\* against which the propagation of the seed is tested.
ScalableSetSeedOwn(f, seed) == [f EXCEPT !._seed = seed]

\* set seed(seed): the seed goes to every inner filter
ScalableSetSeed(f, seed) ==
    [f EXCEPT !._seed = seed,
              !._filters = [i \in 1..Len(@) |-> WithSeed(@[i], seed)]]

\* a growth test that also fires at a load equal to the load factor
GrowthAtLoadFactor(f) ==
    LET load == CurrentLoad(f)
    IN  load.num * f._loadFactor.den >= f._loadFactor.num * load.den

\* currentFilter._currentload() > currentFilter._loadFactor
NeedsGrowth(f) ==
    LET load == CurrentLoad(f)
    IN  load.num * f._loadFactor.den > f._loadFactor.num * load.den

\* a new size whose exponent is the index of the new filter
NewSizeByIndex(f) ==
    (f._initial_size * Pow(GrowthBase, Len(f._filters)) * LN2Milli) \div Milli

\* arguments of the create call of add
NewSize(f) ==
    (f._initial_size * Pow(GrowthBase, Len(f._filters) + 1) * LN2Milli) \div Milli
NewErrorRate(f) == RateMul(f._error_rate, RatePow(f._ratio, Len(f._filters)))

\* add(element)
\* An add that sets the bits of the element in every inner filter: the variant
\* against which the frame of add is tested.
ScalableAddAll(f, element) ==
    LET currentFilter == f._filters[Len(f._filters)]
        grown == IF NeedsGrowth(currentFilter)
                 THEN [f EXCEPT !._filters =
                          Append(@, WithSeed(PartitionCreate(NewSize(f), NewErrorRate(f),
                                                             f._ratio),
                                             f._seed))]
                 ELSE f
    IN  [grown EXCEPT !._filters =
            [i \in 1..Len(grown._filters) |-> PartitionAdd(grown._filters[i], element)]]

ScalableAdd(f, element) ==
    LET currentFilter == f._filters[Len(f._filters)]
        grown == IF NeedsGrowth(currentFilter)
                 THEN [f EXCEPT !._filters =
                          Append(@, WithSeed(PartitionCreate(NewSize(f), NewErrorRate(f),
                                                             f._ratio),
                                             f._seed))]
                 ELSE f
    IN  [grown EXCEPT !._filters[Len(grown._filters)] = PartitionAdd(@, element)]

\* a has that asks the last inner filter only
ScalableHasLast(f, element) == PartitionHas(f._filters[Len(f._filters)], element)

\* has(element)
ScalableHas(f, element) == \E i \in 1..Len(f._filters) : PartitionHas(f._filters[i], element)

\* capacity(), in thousandths
RECURSIVE CapacityFrom(_, _)
CapacityFrom(f, i) ==
    IF i > Len(f._filters) THEN 0 ELSE f._filters[i]._capacity + CapacityFrom(f, i + 1)
ScalableCapacity(f) == CapacityFrom(f, 1)

\* this.equals(filter): "error" when filter has fewer inner filters than this
\* and the comparison reaches a missing one
RECURSIVE EveryFrom(_, _, _)
EveryFrom(this, filter, i) ==
    IF i > Len(this._filters) THEN "true"
    ELSE IF i > Len(filter._filters) THEN "error"
    ELSE IF ~PartitionEquals(filter._filters[i], this._filters[i]) THEN "false"
    ELSE EveryFrom(this, filter, i + 1)

ScalableEquals(this, filter) ==
    IF \/ this._seed # filter._seed
       \/ this._ratio # filter._ratio
       \/ ScalableCapacity(this) # ScalableCapacity(filter)
    THEN "false"
    ELSE EveryFrom(this, filter, 1)

ScalableSaveAsJSON(f) ==
    [_initial_size |-> f._initial_size,
     _error_rate |-> f._error_rate,
     _filters |-> [i \in 1..Len(f._filters) |-> PartitionSaveAsJSON(f._filters[i])],
     _seed |-> f._seed,
     _ratio |-> f._ratio]

\* an import that keeps the constructor's inner filter in front of the imported
\* ones
ScalableFromJSONKeepingInitial(element) ==
    LET bl == ScalableSetSeed(
                  ScalableBloomFilter(element._initial_size, element._error_rate,
                                      element._ratio),
                  element._seed)
    IN  [bl EXCEPT !._filters =
            @ \o [i \in 1..Len(element._filters) |-> PartitionFromJSON(element._filters[i])]]

\* fromJSON(element)
ScalableFromJSON(element) ==
    LET bl == ScalableSetSeed(
                  ScalableBloomFilter(element._initial_size, element._error_rate,
                                      element._ratio),
                  element._seed)
    IN  [bl EXCEPT !._filters =
            [i \in 1..Len(element._filters) |-> PartitionFromJSON(element._filters[i])]]

(***************************************************************************)
(* The scalable filter as a state machine.  The seed is assigned only      *)
(* before the first add.  created[j + 1] holds the arguments of the create *)
(* call that built inner filter j; an import rebuilds the inner filters    *)
(* from their exported form, so it leaves created as it is.                *)
(***************************************************************************)
NumItems == 5
Items == 1..NumItems
InitialSizes == {1 * Milli, 2 * Milli}
ErrorRates == {Rate(1, 2), Rate(1, 4)}
Ratios == {Rate(1, 2), Rate(1, 4)}

NoScall == [op |-> "new", element |-> 0, ret |-> "none"]

ScalableInit ==
    /\ \E n \in InitialSizes, p \in ErrorRates, r \in Ratios :
          /\ sbf = ScalableBloomFilter(n, p, r)
          /\ created = <<[size |-> n, errorRate |-> p, ratio |-> r]>>
    /\ sAdded = {}
    /\ scall = NoScall
    /\ cuckoo = <<>>
    /\ status = <<>>
    /\ lossy = FALSE
    /\ call = NoCall
    /\ peer = <<>>
    /\ probe = <<>>

SAdd ==
    \E x \in Items :
        /\ sbf' = ScalableAdd(sbf, x)
        /\ created' = IF Len(sbf'._filters) > Len(sbf._filters)
                      THEN Append(created, [size |-> NewSize(sbf),
                                            errorRate |-> NewErrorRate(sbf),
                                            ratio |-> sbf._ratio])
                      ELSE created
        /\ sAdded' = sAdded \cup {x}
        /\ scall' = [op |-> "add", element |-> x, ret |-> "none"]
        /\ UNCHANGED <<cvars, xvars>>

SHas ==
    \E x \in Items :
        /\ scall' = [op |-> "has", element |-> x,
                     ret |-> IF ScalableHas(sbf, x) THEN "true" ELSE "false"]
        /\ UNCHANGED <<sbf, created, sAdded, cvars, xvars>>

SSetSeed ==
    \E s \in Seeds :
        /\ sAdded = {}
        /\ sbf' = ScalableSetSeed(sbf, s)
        /\ scall' = [op |-> "seed", element |-> 0, ret |-> "none"]
        /\ UNCHANGED <<created, sAdded, cvars, xvars>>

SReload ==
    /\ sbf' = ScalableFromJSON(ScalableSaveAsJSON(sbf))
    /\ scall' = [op |-> "fromJSON", element |-> 0, ret |-> ScalableEquals(sbf', sbf)]
    /\ UNCHANGED <<created, sAdded, cvars, xvars>>

ScalableNext == SAdd \/ SHas \/ SSetSeed \/ SReload

SpecScalable == ScalableInit /\ [][ScalableNext]_vars

(***************************************************************************)
(* Claims on the scalable Bloom filter.                                    *)
(***************************************************************************)
LastFilter(f) == f._filters[Len(f._filters)]

\* C3: without reseeding, after any sequence of adds, growth included, has(x) is
\* true for every element x that was added.
C3_ScalableNoFalseNegative ==
    \A x \in sAdded : ScalableHas(sbf, x)

\* has has just answered true for an added element that the last inner filter
\* does not hold: an earlier inner filter answered
C3_Witness ==
    /\ scall.op = "has" /\ scall.ret = "true"
    /\ scall.element \in sAdded
    /\ Len(sbf._filters) >= 2
    /\ ~PartitionHas(LastFilter(sbf), scall.element)

\* C8: fromJSON(f.saveAsJSON()) equals f and has as many inner filters as f, in
\* the same order; the inner filter built by the constructor is not kept.
C8_ScalableRoundTrip ==
    [][scall'.op = "fromJSON" =>
          /\ scall'.ret = "true"
          /\ Len(sbf'._filters) = Len(sbf._filters)
          /\ \A i \in 1..Len(sbf._filters) :
                PartitionEquals(sbf'._filters[i], sbf._filters[i])
          /\ sbf'._seed = sbf._seed]_vars

\* a filter with several inner filters, elements in them and a seed of its own
\* has been exported and imported
C8_Witness ==
    /\ scall.op = "fromJSON"
    /\ Len(sbf._filters) >= 3
    /\ sbf._seed # DefaultSeed
    /\ \A i \in 1..Len(sbf._filters) : UsedFrom(sbf._filters[i], 1) > 0

\* the arguments of create that the sizing rule gives for inner filter j
RuleSize(j) == (sbf._initial_size * Pow(GrowthBase, j + 1) * LN2Milli) \div Milli
RuleErrorRate(j) == RateMul(sbf._error_rate, RatePow(sbf._ratio, j))

\* inner filter j is the one create builds from created[j + 1]
BuiltFrom(j) ==
    /\ sbf._filters[j + 1]._capacity = created[j + 1].size
    /\ sbf._filters[j + 1]._nbHashes = Log2Ceil(created[j + 1].errorRate)
    /\ sbf._filters[j + 1]._loadFactor = created[j + 1].ratio

\* C9 as claimed: every inner filter j, j = 0 included, was created with size
\* initial_size * 2^(j+1) * ln 2 and error rate error_rate * ratio^j.
C9_Original ==
    /\ Len(created) = Len(sbf._filters)
    /\ \A j \in 0..(Len(created) - 1) :
          /\ BuiltFrom(j)
          /\ created[j + 1].size = RuleSize(j)
          /\ RateEq(created[j + 1].errorRate, RuleErrorRate(j))

\* C9 amended: every inner filter j was created with error rate error_rate *
\* ratio^j; inner filter 0 was created with size initial_size, and every inner
\* filter j >= 1 with size initial_size * 2^(j+1) * ln 2.
C9_SizingFromSecondFilter ==
    /\ Len(created) = Len(sbf._filters)
    /\ \A j \in 0..(Len(created) - 1) :
          /\ BuiltFrom(j)
          /\ created[j + 1].size = IF j = 0 THEN sbf._initial_size ELSE RuleSize(j)
          /\ RateEq(created[j + 1].errorRate, RuleErrorRate(j))

\* the filter has grown twice
C9_Witness ==
    /\ Len(sbf._filters) >= 3
    /\ Len(created) >= 3
    /\ sAdded # {}

\* C10: an add changes the number of inner filters by 0 or +1; it appends one
\* exactly when the load of the last inner filter was above its load factor
\* before the insert; the element goes into the last inner filter, the other
\* inner filters stay as they were.
C10_GrowthRule ==
    [][scall'.op = "add" =>
          LET n == Len(sbf._filters)
              n2 == Len(sbf'._filters)
              last == sbf._filters[n]
              over == UsedFrom(last, 1) * last._loadFactor.den
                          > last._loadFactor.num * last._size
          IN  /\ n2 \in {n, n + 1}
              /\ (n2 = n + 1) <=> over
              /\ \A i \in 1..n : i < n2 => sbf'._filters[i] = sbf._filters[i]
              /\ PartitionHas(sbf'._filters[n2], scall'.element)
              /\ n2 = n => sbf'._filters[n] = PartitionAdd(last, scall'.element)
              /\ n2 = n + 1 => UsedFrom(sbf'._filters[n2], 1) <= sbf'._filters[n2]._nbHashes
         ]_vars

\* an add has just appended an inner filter: the last inner filter holds the
\* added element and nothing else, and the inner filter before it is above its
\* load factor
C10_Witness ==
    /\ scall.op = "add"
    /\ Len(sbf._filters) >= 2
    /\ PartitionHas(LastFilter(sbf), scall.element)
    /\ LastFilter(sbf) = PartitionAdd(
           [LastFilter(sbf) EXCEPT !._filter =
               [i \in 1..Len(@) |-> NewBitSet(@[i].size)]], scall.element)
    /\ NeedsGrowth(sbf._filters[Len(sbf._filters) - 1])

(***************************************************************************)
(* Claims on the buckets and on the calls of the cuckoo filter.            *)
(***************************************************************************)
\* number of slots of a bucket that hold a fingerprint
SlotsUsed(b) == Cardinality({s \in 1..Len(b._elements) : b._elements[s] # Null})

\* C16: every bucket holds at most _bucketSize fingerprints; an add that returns
\* true raises the length of one bucket, which was free, by one and leaves the
\* other lengths; a failed add leaves every length; every kick overwrites a used
\* slot of a full bucket.
C16_BucketCapacity ==
    /\ \A i \in 1..Len(cuckoo._filter) :
          /\ cuckoo._filter[i]._length <= cuckoo._bucketSize
          /\ cuckoo._filter[i]._length = SlotsUsed(cuckoo._filter[i])
          /\ Len(cuckoo._filter[i]._elements) = cuckoo._bucketSize
    /\ \A x \in Elems, throwError \in BOOLEAN, destructive \in BOOLEAN :
       \A out \in CuckooAdd(cuckoo, x, throwError, destructive) :
          LET grown == {i \in 1..Len(cuckoo._filter) :
                           out.filter._filter[i]._length # cuckoo._filter[i]._length}
          IN  /\ \A k \in 1..Len(out.logs) :
                    LET bucket == cuckoo._filter[out.logs[k][1] + 1]
                    IN  /\ bucket._length = cuckoo._bucketSize
                        /\ out.logs[k][2] \in 0..(cuckoo._bucketSize - 1)
                        /\ out.logs[k][3] # Null
              /\ out.ret = "true" =>
                    /\ Cardinality(grown) = 1
                    /\ \A i \in grown :
                          /\ BucketIsFree(cuckoo._filter[i])
                          /\ out.filter._filter[i]._length = cuckoo._filter[i]._length + 1
              /\ out.ret # "true" => grown = {}

\* an add has succeeded after a kick and has left a full bucket and a free one
C16_Witness ==
    /\ IsAdd(call) /\ call.ret = "true" /\ call.kicks >= 1
    /\ cuckoo._bucketSize >= 1
    /\ \E i, j \in 1..Len(cuckoo._filter) :
          /\ ~BucketIsFree(cuckoo._filter[i])
          /\ BucketIsFree(cuckoo._filter[j])

\* C17: an add makes at most _maxKicks kicks; with _maxKicks = 0 an add that
\* finds both buckets full writes nothing, whatever destructive is.
C17_BoundedEviction ==
    [][IsAdd(call') =>
          /\ call'.kicks <= cuckoo._maxKicks
          /\ call'.ret \in {"true", "false", "full", "error"}
          /\ (cuckoo._maxKicks = 0 /\ call'.ret \in {"false", "full"})
                => cuckoo' = cuckoo]_vars

\* an add with destructive = true on a filter with _maxKicks = 0 found both
\* buckets full
C17_Witness ==
    /\ IsAdd(call) /\ call.ret \in {"false", "full"} /\ call.destructive
    /\ cuckoo._maxKicks = 0 /\ call.kicks = 0

\* number of slots of a bucket that hold the fingerprint fp
FpCount(b, fp) == Cardinality({s \in 1..Len(b._elements) : b._elements[s] = fp})

\* the slots <<bucket, slot>> in which two filters of the same shape differ
SlotsChanged(f, g) ==
    {sl \in (1..Len(f._filter)) \X (1..f._bucketSize) :
        f._filter[sl[1]]._elements[sl[2]] # g._filter[sl[1]]._elements[sl[2]]}

RECURSIVE StoredFrom(_, _)
StoredFrom(f, i) ==
    IF i > Len(f._filter) THEN 0 ELSE SlotsUsed(f._filter[i]) + StoredFrom(f, i + 1)

\* number of fingerprints stored in the buckets of a filter
Stored(f) == StoredFrom(f, 1)

\* g is f with one more copy of fp in bucket index and _length raised by one
StoredIn(f, g, index, fp) ==
    /\ g = [f EXCEPT !._filter[index + 1] = g._filter[index + 1], !._length = @ + 1]
    /\ g._filter[index + 1]._length = f._filter[index + 1]._length + 1
    /\ Cardinality(SlotsChanged(f, g)) = 1
    /\ \A sl \in SlotsChanged(f, g) :
          /\ f._filter[sl[1]]._elements[sl[2]] = Null
          /\ g._filter[sl[1]]._elements[sl[2]] = fp

\* C18: remove(x) returns true exactly when has(x) is true; it then clears one
\* slot holding x's fingerprint, in the first bucket when that bucket holds the
\* fingerprint and in the second otherwise, and lowers _length by one; when it
\* returns false the filter is unchanged.
C18_RemoveOneOccurrence ==
    \A x \in Elems :
        LET loc == Locations(cuckoo, x)
            out == CuckooRemove(cuckoo, x)
            index == IF Holds(cuckoo, loc.firstIndex, x)
                     THEN loc.firstIndex ELSE loc.secondIndex
        IN  ~loc.throws =>
              /\ out.ret \in {"true", "false"}
              /\ (out.ret = "true") <=> (CuckooHas(cuckoo, x) = "true")
              /\ out.ret = "false" => out.filter = cuckoo
              /\ out.ret = "true" =>
                    /\ out.filter = [cuckoo EXCEPT
                                        !._filter[index + 1] = out.filter._filter[index + 1],
                                        !._length = @ - 1]
                    /\ out.filter._filter[index + 1]._length
                          = cuckoo._filter[index + 1]._length - 1
                    /\ Cardinality(SlotsChanged(cuckoo, out.filter)) = 1
                    /\ \A sl \in SlotsChanged(cuckoo, out.filter) :
                          /\ cuckoo._filter[sl[1]]._elements[sl[2]] = loc.fingerprint
                          /\ out.filter._filter[sl[1]]._elements[sl[2]] = Null

\* a remove has returned true and the filter holds the fingerprint of some
\* element in both of its two different buckets
C18_Witness ==
    /\ call.op = "remove" /\ call.ret = "true"
    /\ \E x \in Elems :
          LET loc == Locations(cuckoo, x)
          IN  /\ ~loc.throws
              /\ loc.firstIndex # loc.secondIndex
              /\ Holds(cuckoo, loc.firstIndex, x)
              /\ Holds(cuckoo, loc.secondIndex, x)

\* C19: add stores the fingerprint in the first bucket when that bucket is
\* free, otherwise in the second bucket when that one is free, and kicks only
\* when both are full; every add that returns true raises _length and the
\* number of stored fingerprints by one.
C19_AddPlacement ==
    \A x \in Elems, throwError \in BOOLEAN, destructive \in BOOLEAN :
        LET loc == Locations(cuckoo, x)
            firstFree == BucketIsFree(cuckoo._filter[loc.firstIndex + 1])
            secondFree == BucketIsFree(cuckoo._filter[loc.secondIndex + 1])
        IN  ~loc.throws =>
            \A out \in CuckooAdd(cuckoo, x, throwError, destructive) :
              /\ firstFree =>
                    /\ out.ret = "true" /\ out.logs = <<>>
                    /\ StoredIn(cuckoo, out.filter, loc.firstIndex, loc.fingerprint)
              /\ (~firstFree /\ secondFree) =>
                    /\ out.ret = "true" /\ out.logs = <<>>
                    /\ StoredIn(cuckoo, out.filter, loc.secondIndex, loc.fingerprint)
              /\ out.logs # <<>> => (~firstFree /\ ~secondFree)
              /\ (~firstFree /\ ~secondFree /\ cuckoo._maxKicks > 0) => out.logs # <<>>
              /\ out.ret = "true" =>
                    /\ out.filter._length = cuckoo._length + 1
                    /\ Stored(out.filter) = Stored(cuckoo) + 1

\* an add has returned true without a kick and some element now sits in its
\* second bucket and not in its first, which is a different bucket
C19_Witness ==
    /\ IsAdd(call) /\ call.ret = "true" /\ call.kicks = 0
    /\ \E x \in Elems :
          LET loc == Locations(cuckoo, x)
          IN  /\ ~loc.throws
              /\ loc.firstIndex # loc.secondIndex
              /\ ~Holds(cuckoo, loc.firstIndex, x)
              /\ Holds(cuckoo, loc.secondIndex, x)

(***************************************************************************)
(* The scalable filter under seed assignments at any time: the setter has  *)
(* no guard in the code, only a warning in its comment.                    *)
(***************************************************************************)
SReseed ==
    \E s \in Seeds :
        /\ sbf' = ScalableSetSeed(sbf, s)
        /\ scall' = [op |-> "seed", element |-> 0, ret |-> "none"]
        /\ UNCHANGED <<created, sAdded, cvars, xvars>>

\* add of the next element not yet added: each element is added once, in a
\* fixed order, and the seed is free before every add
SeedAdd ==
    LET x == Cardinality(sAdded) + 1
    IN  /\ x \in Items
        /\ sbf' = ScalableAdd(sbf, x)
        /\ created' = IF Len(sbf'._filters) > Len(sbf._filters)
                      THEN Append(created, [size |-> NewSize(sbf),
                                            errorRate |-> NewErrorRate(sbf),
                                            ratio |-> sbf._ratio])
                      ELSE created
        /\ sAdded' = sAdded \cup {x}
        /\ scall' = [op |-> "add", element |-> x, ret |-> "none"]
        /\ UNCHANGED <<cvars, xvars>>

SeedNext == SeedAdd \/ SReseed

SpecScalableSeed == ScalableInit /\ [][SeedNext]_vars

\* C11: whatever the order of the seed assignments and the adds, every inner
\* filter carries the seed of the scalable filter.
C11_SeedPropagation ==
    \A i \in 1..Len(sbf._filters) : sbf._filters[i]._seed = sbf._seed

\* the seed was assigned after adds had made the filter grow, and it is not the
\* seed the filters were created with
C11_Witness ==
    /\ scall.op = "seed"
    /\ sAdded # {}
    /\ Len(sbf._filters) >= 2
    /\ sbf._seed # DefaultSeed

(***************************************************************************)
(* Two cuckoo filters and equals between them.                             *)
(***************************************************************************)
PairShapes == {<<1, 1>>, <<2, 1>>, <<1, 2>>}   \* <<size, bucketSize>>
PairKickLimits == {0, 1}
PairFpLen == HashLen \div 3                   \* fingerprint length of both

PairInit ==
    /\ \E sh \in PairShapes, mk \in PairKickLimits :
          cuckoo = CuckooFilter(sh[1], PairFpLen, sh[2], mk)
    /\ \E sh \in PairShapes, mk \in PairKickLimits :
          peer = CuckooFilter(sh[1], PairFpLen, sh[2], mk)
    /\ status = [x \in Elems |-> "none"]
    /\ lossy = FALSE
    /\ call = NoCall
    /\ sbf = <<>>
    /\ created = <<>>
    /\ sAdded = {}
    /\ scall = <<>>
    /\ probe = <<>>

\* this.add(x)
PairAdd ==
    \E x \in Elems :
    \E out \in CuckooAdd(cuckoo, x, FALSE, FALSE) :
        /\ cuckoo' = out.filter
        /\ call' = [NoCall EXCEPT !.op = "add", !.ret = out.ret,
                                  !.kicks = Len(out.logs),
                                  !.rewrote = Rewrote(out.logs)]
        /\ UNCHANGED <<status, lossy, svars, xvars>>

\* filter.add(x)
PairAddPeer ==
    \E x \in Elems :
    \E out \in CuckooAdd(peer, x, FALSE, FALSE) :
        /\ peer' = out.filter
        /\ call' = [NoCall EXCEPT !.op = "addPeer", !.ret = out.ret,
                                  !.kicks = Len(out.logs),
                                  !.rewrote = Rewrote(out.logs)]
        /\ UNCHANGED <<cuckoo, status, lossy, svars, probe>>

\* filter.seed = s, before filter holds anything
PairSeedPeer ==
    \E s \in Seeds :
        /\ peer._length = 0
        /\ peer' = [peer EXCEPT !._seed = s]
        /\ call' = [NoCall EXCEPT !.op = "seedPeer"]
        /\ UNCHANGED <<cuckoo, status, lossy, svars, probe>>

\* this.equals(filter)
PairEquals ==
    /\ call' = [NoCall EXCEPT !.op = "equals", !.ret = CuckooEquals(cuckoo, peer)]
    /\ UNCHANGED <<cuckoo, status, lossy, svars, xvars>>

PairNext == PairAdd \/ PairAddPeer \/ PairSeedPeer \/ PairEquals

SpecCuckooPair == PairInit /\ [][PairNext]_vars

\* the buckets of two filters are equal one by one, and as many
SameBuckets(a, b) ==
    /\ Len(a._filter) = Len(b._filter)
    /\ \A i \in 1..Len(a._filter) : BucketEquals(b._filter[i], a._filter[i])

\* C20: equals returns a boolean for every pair of filters, and returns true
\* exactly when the buckets of the two are equal one by one, whatever the
\* seeds, the lengths, the kick limits and the sizes.
C20_EqualsComparesBuckets ==
    /\ CuckooEquals(cuckoo, peer) \in {"true", "false"}
    /\ CuckooEquals(peer, cuckoo) \in {"true", "false"}
    /\ (CuckooEquals(cuckoo, peer) = "true") <=> SameBuckets(cuckoo, peer)
    /\ (CuckooEquals(peer, cuckoo) = "true") <=> SameBuckets(peer, cuckoo)

(***************************************************************************)
(* The ways to obtain a cuckoo filter: constructor, create, from, fromJSON.*)
(***************************************************************************)
MinCreateSize == 2     \* the 32 of Math.max(size, 32), scaled with the widths
FillMilli == 955       \* the 0.955 of create, in thousandths

\* Math.ceil(Math.log2(n)) of an integer n >= 1
RECURSIVE Log2CeilIntFrom(_, _)
Log2CeilIntFrom(n, e) == IF Pow(2, e) >= n THEN e ELSE Log2CeilIntFrom(n, e + 1)
Log2CeilInt(n) == Log2CeilIntFrom(n, 0)

\* Math.ceil(Math.log2(1 / rate) + Math.log2(2 * size)); log2(1 / rate) is an
\* integer for the rates of the model
computeFingerpintLength(size, rate) == Log2Ceil(rate) + Log2CeilInt(2 * size)

\* Math.ceil(Math.max(size, 32) / bucketSize / 0.955)
CreateCapacity(size, bucketSize) ==
    CeilDiv((IF size > MinCreateSize THEN size ELSE MinCreateSize) * Milli,
            bucketSize * FillMilli)

\* CuckooFilter.create(size, errorRate, bucketSize, maxKicks)
CuckooCreate(size, errorRate, bucketSize, maxKicks) ==
    CuckooFilter(CreateCapacity(size, bucketSize),
                 computeFingerpintLength(bucketSize, errorRate),
                 bucketSize, maxKicks)

\* array.forEach(item => filter.add(item)) from item i on: the filters it can
\* end with; an add that throws ends from() without a filter
RECURSIVE FromAdds(_, _, _)
FromAdds(f, items, i) ==
    IF i > Len(items) THEN {f}
    ELSE UNION {IF out.ret = "error" THEN {} ELSE FromAdds(out.filter, items, i + 1)
                : out \in CuckooAdd(f, items[i], FALSE, FALSE)}

\* CuckooFilter.from(items, errorRate, bucketSize, maxKicks, seed)
CuckooFrom(items, errorRate, bucketSize, maxKicks, seed) ==
    LET filter == CuckooCreate(Len(items), errorRate, bucketSize, maxKicks)
        seeded == IF seed # 0 THEN [filter EXCEPT !._seed = seed] ELSE filter
    IN  FromAdds(seeded, items, 1)

BuildSizes == 1..Pow(2, HalfLen)
BuildBucketSizes == {1, 2}
BuildItems == UNION {[1..n -> Elems] : n \in 0..(NumElems + 1)}

\* probe.size is the size handed to the constructor, probe.items the items
\* handed to from
BuildInit ==
    /\ \E size \in BuildSizes, bs \in BuildBucketSizes, mk \in PairKickLimits,
          items \in BuildItems, seed \in Seeds :
          \/ /\ cuckoo = CuckooFilter(size, PairFpLen, bs, mk)
             /\ probe = [op |-> "constructor", size |-> size, items |-> <<>>]
          \/ /\ cuckoo = CuckooCreate(size, Rate(1, 2), bs, mk)
             /\ probe = [op |-> "create", size |-> CreateCapacity(size, bs),
                       items |-> <<>>]
          \/ /\ cuckoo \in CuckooFrom(items, Rate(1, 2), bs, mk, seed)
             /\ probe = [op |-> "from", size |-> CreateCapacity(Len(items), bs),
                       items |-> items]
    /\ status = [x \in Elems |-> "none"]
    /\ lossy = FALSE
    /\ call = NoCall
    /\ sbf = <<>>
    /\ created = <<>>
    /\ sAdded = {}
    /\ scall = <<>>
    /\ peer = <<>>

BuildAdd ==
    \E x \in Elems :
    \E out \in CuckooAdd(cuckoo, x, FALSE, FALSE) :
        /\ cuckoo' = out.filter
        /\ call' = [NoCall EXCEPT !.op = "add", !.ret = out.ret,
                                  !.kicks = Len(out.logs),
                                  !.rewrote = Rewrote(out.logs)]
        /\ UNCHANGED <<status, lossy, svars, xvars>>

BuildRemove ==
    \E x \in Elems :
        LET out == CuckooRemove(cuckoo, x)
        IN  /\ cuckoo' = out.filter
            /\ call' = [NoCall EXCEPT !.op = "remove", !.ret = out.ret]
            /\ UNCHANGED <<status, lossy, svars, xvars>>

\* CuckooFilter.fromJSON(filter.saveAsJSON()), of a filter that has buckets
\* (getNearestPow2(0) is not specified)
BuildReload ==
    /\ cuckoo._size > 0
    /\ cuckoo' = CuckooFromJSON(CuckooSaveAsJSON(cuckoo))
    /\ call' = [NoCall EXCEPT !.op = "fromJSON", !.ret = CuckooEquals(cuckoo', cuckoo)]
    /\ UNCHANGED <<status, lossy, svars, xvars>>

BuildNext == BuildAdd \/ BuildRemove \/ BuildReload

SpecCuckooBuild == BuildInit /\ [][BuildNext]_vars

IsPow2(n) == \E e \in 0..HashLen : n = Pow(2, e)

\* C15: _size is a power of two, at least the size asked of the constructor,
\* and the number of buckets of _filter, for a filter from the constructor,
\* create, from or fromJSON and after every add and remove.
C15_SizePowerOfTwo ==
    /\ IsPow2(cuckoo._size)
    /\ cuckoo._size >= probe.size
    /\ cuckoo._size = Len(cuckoo._filter)

(***************************************************************************)
(* getDistinctIndexes(element, size, number, seed), one iteration per      *)
(* step: i = 0, 1, 2, ... of the double-hashing sequence, a value already  *)
(* emitted is skipped, the loop ends once `number` values are emitted.     *)
(* The sequence has period 6 * size in i, so the counter is kept modulo    *)
(* the period: the values visited are those of the unbounded counter.      *)
(***************************************************************************)
MaxSize == 5           \* sizes are 1..MaxSize

Period(size) == 6 * size

SeqRange(q) == {q[k] : k \in 1..Len(q)}

DistinctInit ==
    /\ \E element \in Items, seed \in Seeds, size \in 1..MaxSize :
       \E number \in 1..size :
          probe = [op |-> "getDistinctIndexes",
                   element |-> element, seed |-> seed,
                   size |-> size, number |-> number,
                   i |-> 0, indexes |-> <<>>, pc |-> "loop"]
    /\ cuckoo = <<>>
    /\ status = <<>>
    /\ lossy = FALSE
    /\ call = NoCall
    /\ sbf = <<>>
    /\ created = <<>>
    /\ sAdded = {}
    /\ scall = <<>>
    /\ peer = <<>>

\* one test of the loop condition and, if it holds, one iteration
DistinctStep ==
    /\ probe.pc = "loop"
    /\ IF Len(probe.indexes) >= probe.number
       THEN probe' = [probe EXCEPT !.pc = "done"]
       ELSE LET hashes == hashIntAndString(probe.element, probe.seed)
                ind == doubleHashing(probe.i, hashes.first, hashes.second, probe.size)
            IN  probe' = [probe EXCEPT
                             !.indexes = IF ind \in SeqRange(@) THEN @ ELSE Append(@, ind),
                             !.i = (@ + 1) % Period(probe.size)]
    /\ UNCHANGED <<cvars, svars, peer>>

DistinctNext == DistinctStep

SpecDistinct == DistinctInit /\ [][DistinctNext]_vars /\ WF_vars(DistinctStep)

\* the indexes returned: number of them, pairwise distinct, in 0..size-1, and
\* all of 0..size-1 when number = size
DistinctResult ==
    /\ Len(probe.indexes) = probe.number
    /\ Cardinality(SeqRange(probe.indexes)) = probe.number
    /\ SeqRange(probe.indexes) \subseteq 0..(probe.size - 1)
    /\ probe.number = probe.size => SeqRange(probe.indexes) = 0..(probe.size - 1)

MaxPairAdds == 3       \* adds made to each of the two filters

\* initial sizes, in thousandths: 0.125, and the capacity 0.471 a filter of
\* initial size 0.125 has once it has grown
SPairSizes == {125, 125 + (125 * GrowthBase * GrowthBase * LN2Milli) \div Milli}

SPairInit ==
    /\ \E na \in SPairSizes, nb \in SPairSizes, ra \in Ratios, rb \in Ratios,
          h \in {"default", "constant"} :
          /\ sbf = ScalableBloomFilter(na, Rate(1, 2), ra)
          /\ peer = ScalableBloomFilter(nb, Rate(1, 2), rb)
          /\ probe = [hashing |-> h, adds |-> 0, peerAdds |-> 0]
    /\ created = <<>>
    /\ sAdded = {}
    /\ scall = NoScall
    /\ cuckoo = <<>>
    /\ status = <<>>
    /\ lossy = FALSE
    /\ call = NoCall

\* this.add(x)
SPairAdd ==
    \E x \in Items :
        /\ probe.adds < MaxPairAdds
        /\ sbf' = ScalableAdd(sbf, x)
        /\ probe' = [probe EXCEPT !.adds = @ + 1]
        /\ scall' = [op |-> "add", element |-> x, ret |-> "none"]
        /\ UNCHANGED <<created, sAdded, peer, cvars>>

\* filter.add(x)
SPairAddPeer ==
    \E x \in Items :
        /\ probe.peerAdds < MaxPairAdds
        /\ peer' = ScalableAdd(peer, x)
        /\ probe' = [probe EXCEPT !.peerAdds = @ + 1]
        /\ scall' = [op |-> "addPeer", element |-> x, ret |-> "none"]
        /\ UNCHANGED <<sbf, created, sAdded, cvars>>

\* filter.seed = s, before filter holds anything
SPairSeedPeer ==
    \E s \in Seeds :
        /\ probe.peerAdds = 0
        /\ peer' = ScalableSetSeed(peer, s)
        /\ scall' = [op |-> "seedPeer", element |-> 0, ret |-> "none"]
        /\ UNCHANGED <<sbf, created, sAdded, probe, cvars>>

\* this.equals(filter)
SPairEquals ==
    /\ scall' = [op |-> "equals", element |-> 0, ret |-> ScalableEquals(sbf, peer)]
    /\ UNCHANGED <<sbf, created, sAdded, xvars, cvars>>

SPairNext == SPairAdd \/ SPairAddPeer \/ SPairSeedPeer \/ SPairEquals

SpecScalablePair == SPairInit /\ [][SPairNext]_vars

\* same seed, ratio and capacity, as many inner filters, equal one by one
SameScalable(a, b) ==
    /\ a._seed = b._seed
    /\ a._ratio = b._ratio
    /\ ScalableCapacity(a) = ScalableCapacity(b)
    /\ Len(a._filters) = Len(b._filters)
    /\ \A i \in 1..Len(a._filters) : PartitionEquals(b._filters[i], a._filters[i])

\* C12: equals returns a boolean for every pair of scalable filters, the same
\* in both directions, and true exactly when the two have the same seed, ratio
\* and capacity and as many inner filters, equal one by one.
C12_ScalableEquals ==
    /\ ScalableEquals(sbf, peer) \in {"true", "false"}
    /\ ScalableEquals(peer, sbf) \in {"true", "false"}
    /\ ScalableEquals(sbf, peer) = ScalableEquals(peer, sbf)
    /\ (ScalableEquals(sbf, peer) = "true") <=> SameScalable(sbf, peer)

\* C13: two scalable filters with the same parameters and seed, each with a
\* hashing service whose serialize is constant, are equal after as many adds
\* to the one as to the other, whatever the elements.
C13_OverrideEquivalence ==
    (/\ probe.hashing = "constant"
     /\ sbf._initial_size = peer._initial_size
     /\ sbf._error_rate = peer._error_rate
     /\ sbf._ratio = peer._ratio
     /\ sbf._seed = peer._seed
     /\ probe.adds = probe.peerAdds)
        => /\ ScalableEquals(sbf, peer) = "true"
           /\ ScalableEquals(peer, sbf) = "true"

(***************************************************************************)
(* Further claims on the cuckoo filter.                                    *)
(***************************************************************************)
\* C23: _length is the number of fingerprints stored in the buckets, and the
\* `used` of _computeHashTableLoad is that number, over a table of
\* _size * _bucketSize entries.
C23_LengthIsOccupancy ==
    LET load == ComputeHashTableLoad(cuckoo)
    IN  /\ cuckoo._length = Stored(cuckoo)
        /\ load.used = cuckoo._length
        /\ load.size = cuckoo._size * cuckoo._bucketSize
        /\ load.free = load.size - cuckoo._length

\* a remove has returned true and left a filter that is neither empty nor full
C23_Witness ==
    /\ call.op = "remove" /\ call.ret = "true"
    /\ cuckoo._length >= 1
    /\ cuckoo._length < cuckoo._size * cuckoo._bucketSize

\* the fingerprints stored in a filter, and the number of copies of one
FpsOf(f) ==
    UNION {{f._filter[i]._elements[k] : k \in 1..Len(f._filter[i]._elements)} \ {Null}
           : i \in 1..Len(f._filter)}

RECURSIVE FpTotalFrom(_, _, _)
FpTotalFrom(f, fp, i) ==
    IF i > Len(f._filter) THEN 0
    ELSE FpCount(f._filter[i], fp) + FpTotalFrom(f, fp, i + 1)
FpTotal(f, fp) == FpTotalFrom(f, fp, 1)

\* g holds what f holds, with one more copy of `stored` and one copy less of
\* `dropped`; _length and the length of every bucket are those of f
OneReplaced(f, g, stored, dropped) ==
    /\ g._length = f._length
    /\ \A i \in 1..Len(f._filter) : g._filter[i]._length = f._filter[i]._length
    /\ \A fp \in FpsOf(f) \cup FpsOf(g) \cup {stored, dropped} :
          FpTotal(g, fp) = FpTotal(f, fp) + (IF fp = stored THEN 1 ELSE 0)
                                          - (IF fp = dropped THEN 1 ELSE 0)

\* the failed outcomes of add(x, throwError, true) on a filter with maxKicks >= 1
DestructiveFailures(f, x) ==
    {out \in UNION {CuckooAdd(f, x, throwError, TRUE) : throwError \in BOOLEAN} :
        f._maxKicks >= 1 /\ out.ret \in {"false", "full"}}

\* C24 as claimed: after a destructive add that ran out of kicks, the lengths
\* are unchanged, the stored fingerprints are those of before with x's
\* fingerprint in place of the last evicted one, and has(x) is true.
C24_Original ==
    \A x \in Elems : \A out \in DestructiveFailures(cuckoo, x) :
        LET fpx == Locations(cuckoo, x).fingerprint
            last == out.logs[Len(out.logs)][3]
        IN  /\ OneReplaced(cuckoo, out.filter, fpx, last)
            /\ CuckooHas(out.filter, x) = "true"

\* C24 amended: after a destructive add that ran out of kicks, the lengths are
\* unchanged and the stored fingerprints are those of before with one more copy
\* of x's fingerprint and one copy less of the last evicted fingerprint; has(x)
\* is true when the last evicted fingerprint is not x's own.
C24_DestructiveReplaces ==
    \A x \in Elems : \A out \in DestructiveFailures(cuckoo, x) :
        LET fpx == Locations(cuckoo, x).fingerprint
            last == out.logs[Len(out.logs)][3]
        IN  /\ Len(out.logs) = cuckoo._maxKicks
            /\ OneReplaced(cuckoo, out.filter, fpx, last)
            /\ last # fpx => CuckooHas(out.filter, x) = "true"

\* a destructive add has failed after kicks that wrote one slot twice
C24_Witness ==
    /\ IsAdd(call) /\ call.destructive /\ call.ret \in {"false", "full"}
    /\ call.kicks >= 2 /\ call.rewrote

(***************************************************************************)
(* A filter on which only add with destructive = false is called: no       *)
(* remove, and the seed is assigned only before the first add, so the      *)
(* filter is never reseeded.  status[x] is "added" once an add of x has    *)
(* returned true.                                                          *)
(***************************************************************************)
KeepAdd ==
    \E x \in Elems, throwError \in BOOLEAN :
    \E out \in CuckooAdd(cuckoo, x, throwError, FALSE) :
        /\ cuckoo' = out.filter
        /\ status' = IF out.ret = "true" THEN [status EXCEPT ![x] = "added"] ELSE status
        /\ call' = [op |-> "add", ret |-> out.ret, throwError |-> throwError,
                    destructive |-> FALSE, kicks |-> Len(out.logs),
                    rewrote |-> Rewrote(out.logs)]
        /\ UNCHANGED <<lossy, svars, xvars>>

\* the seeds assigned here: the default one and one beyond those of Seeds, under
\* which an add succeeds after kicks
KeepSeeds == {DefaultSeed, 3 * NumSeeds - 1}

\* filter.seed = s, before any add
KeepSetSeed ==
    \E s \in KeepSeeds :
        /\ call.op \in {"new", "seed"}
        /\ cuckoo' = [cuckoo EXCEPT !._seed = s]
        /\ call' = [NoCall EXCEPT !.op = "seed"]
        /\ UNCHANGED <<status, lossy, svars, xvars>>

KeepNext == KeepAdd \/ KeepSetSeed

SpecCuckooKeep == CuckooInit /\ [][KeepNext]_vars

\* The filter on which add is called with every choice of its flags, the seed
\* being assigned only before the first add: add is followed from every content
\* that adds alone produce, destructive failures included.
AddsNext == Add \/ KeepSetSeed

SpecCuckooAdds == CuckooInit /\ [][AddsNext]_vars

\* fingerprint fp goes from bucket `from` to bucket `to`, and these are the two
\* candidate buckets of y, whose fingerprint it is
MovesWithin(f, y, fp, from, to) ==
    LET loc == Locations(f, y)
    IN  /\ ~loc.throws
        /\ loc.fingerprint = fp
        /\ \/ from = loc.firstIndex /\ to = loc.secondIndex
           \/ from = loc.secondIndex /\ to = loc.firstIndex

\* the buckets the kicks of an add of x take their fingerprints to: the bucket
\* of the next kick, and after the last kick of an add that returned true the
\* bucket of `others` in which the fingerprint is found
KicksWithinOwners(f, x, out) ==
    \A k \in 1..Len(out.logs) :
        LET from == out.logs[k][1]
            tmp == out.logs[k][3]
            owners == {y \in Elems : status[y] = "added" \/ y = x}
        IN  IF k < Len(out.logs)
            THEN \E y \in owners : MovesWithin(f, y, tmp, from, out.logs[k + 1][1])
            ELSE out.ret = "true" =>
                    \E y \in owners :
                        LET loc == Locations(f, y)
                            to == IF from = loc.firstIndex THEN loc.secondIndex
                                                           ELSE loc.firstIndex
                        IN  /\ MovesWithin(f, y, tmp, from, to)
                            /\ BucketHas(out.filter._filter[to + 1], tmp)
                            /\ FpTotal(out.filter, tmp)
                                  = FpTotal(f, tmp) + (IF tmp = Locations(f, x).fingerprint THEN 1 ELSE 0)

\* C22: in a filter on which only add with destructive = false was called, the
\* fingerprint of every element whose add returned true is stored in its first
\* or in its second bucket, and every kick of a next add takes the fingerprint
\* it displaces from one of the two buckets of an element it belongs to (an added
\* one, or the one being added) to the other.
C22_FingerprintStaysInItsBuckets ==
    /\ \A x \in Elems :
          status[x] = "added" =>
              \/ Holds(cuckoo, Locations(cuckoo, x).firstIndex, x)
              \/ Holds(cuckoo, Locations(cuckoo, x).secondIndex, x)
    /\ \A x \in Elems, throwError \in BOOLEAN :
          \A out \in CuckooAdd(cuckoo, x, throwError, FALSE) :
              KicksWithinOwners(cuckoo, x, out)

\* an add has succeeded after two kicks or more, and an added element whose two
\* buckets differ has its fingerprint in the second and not in the first
C22_Witness ==
    /\ IsAdd(call) /\ call.ret = "true" /\ call.kicks >= 2
    /\ \E x \in Elems :
          /\ status[x] = "added"
          /\ Locations(cuckoo, x).secondIndex # Locations(cuckoo, x).firstIndex
          /\ Holds(cuckoo, Locations(cuckoo, x).secondIndex, x)
          /\ ~Holds(cuckoo, Locations(cuckoo, x).firstIndex, x)

(***************************************************************************)
(* The frame of add on the scalable filter.                                *)
(***************************************************************************)
\* the inner filters of f whose bits differ in g
BitsChanged(f, g) ==
    {i \in 1..Len(f._filters) : g._filters[i]._filter # f._filters[i]._filter}

\* C25: an add on a scalable filter with n inner filters appends at most one
\* inner filter and changes the bits of at most one of the n, which is then the
\* last of the filter after the call; bits, size, hash count and capacity of
\* every other one of the n are unchanged, and so are _initial_size,
\* _error_rate, _ratio and the seed.
C25_AddFrame ==
    [][scall'.op = "add" =>
          LET n == Len(sbf._filters)
              n2 == Len(sbf'._filters)
          IN  /\ n2 \in {n, n + 1}
              /\ Cardinality(BitsChanged(sbf, sbf')) <= 1
              /\ BitsChanged(sbf, sbf') \subseteq {n2}
              /\ \A i \in 1..n :
                    /\ sbf'._filters[i]._size = sbf._filters[i]._size
                    /\ sbf'._filters[i]._nbHashes = sbf._filters[i]._nbHashes
                    /\ sbf'._filters[i]._capacity = sbf._filters[i]._capacity
              /\ sbf'._initial_size = sbf._initial_size
              /\ sbf'._error_rate = sbf._error_rate
              /\ sbf'._ratio = sbf._ratio
              /\ sbf'._seed = sbf._seed
         ]_vars

\* an add has gone into the second or a later inner filter, which holds more
\* bits than one element sets and so was not appended by this add, while the
\* first inner filter holds elements too
C25_Witness ==
    /\ scall.op = "add"
    /\ Len(sbf._filters) >= 2
    /\ UsedFrom(sbf._filters[1], 1) > 0
    /\ UsedFrom(LastFilter(sbf), 1) > LastFilter(sbf)._nbHashes

(***************************************************************************)
(* The filter returned by CuckooFilter.from.                               *)
(***************************************************************************)
\* C21: the filter returned by from(items) answers true to has(x) for every x
\* of items, and its length is the number of items.
C21_FromFills ==
    (probe.op = "from" /\ call.op = "new") =>
        /\ \A i \in 1..Len(probe.items) : CuckooHas(cuckoo, probe.items[i]) = "true"
        /\ cuckoo._length = Len(probe.items)

(***************************************************************************)
(* The cuckoo filter with its generator.  this.random is the generator     *)
(* made from the seed when the filter is constructed and made anew by      *)
(* every assignment of the seed; the model keeps the number of draws taken *)
(* from it.  cuckoo is a filter, peer a second one constructed with the    *)
(* same arguments and seed and given the same calls, probe.restored a      *)
(* third one obtained from cuckoo by saveAsJSON and fromJSON and given the *)
(* same calls from then on.                                                *)
(***************************************************************************)
MaxDraws == 4          \* add is called while fewer draws were taken

\* draw number n (from 0) of the generator seeded with seed, as the u of
\* u/RandDen
Random(seed, n) == XXH64(n, seed + NumSeeds) % RandDen

\* add(element, throwError, destructive) of a filter whose generator has given
\* n draws: the outcome the next draws select, and the number of draws after
\* the call.  One draw chooses the bucket when both are full, one more the
\* slot of each kick; a kicked bucket is full.
DrawnAdd(f, n, element, throwError, destructive) ==
    LET locations == Locations(f, element)
        kicks == /\ ~locations.throws
                 /\ ~BucketIsFree(f._filter[locations.firstIndex + 1])
                 /\ ~BucketIsFree(f._filter[locations.secondIndex + 1])
        index == IF 2 * Random(f._seed, n) < RandDen THEN locations.firstIndex
                                                     ELSE locations.secondIndex
        Drawn(out) ==
            \A k \in 1..Len(out.logs) :
                /\ k = 1 => out.logs[k][1] = index
                /\ out.logs[k][2] = randomInt(0, f._bucketSize - 1, Random(f._seed, n + k))
        out == CHOOSE o \in CuckooAdd(f, element, throwError, destructive) : Drawn(o)
    IN  [filter |-> out.filter, ret |-> out.ret,
         draws |-> IF kicks THEN n + 1 + Len(out.logs) ELSE n]

NotRestored == <<>>

DrawnInit ==
    /\ \E sh \in Shapes, mk \in KickLimits, s \in KeepSeeds :
          /\ cuckoo = [CuckooFilter(sh[1], PairFpLen, sh[2], mk) EXCEPT !._seed = s]
          /\ peer = cuckoo
    /\ probe = [draws |-> 0, peerDraws |-> 0, peerRet |-> "none",
                restored |-> NotRestored]
    /\ call = NoCall
    /\ status = [x \in Elems |-> "none"]
    /\ lossy = FALSE
    /\ sbf = <<>>
    /\ created = <<>>
    /\ sAdded = {}
    /\ scall = <<>>

\* the same add on the filter, on the second one and on the restored one
DrawnAddAll ==
    \E x \in Elems, throwError \in BOOLEAN, destructive \in BOOLEAN :
        LET a == DrawnAdd(cuckoo, probe.draws, x, throwError, destructive)
            b == DrawnAdd(peer, probe.peerDraws, x, throwError, destructive)
            r == probe.restored
            c == DrawnAdd(r.filter, r.draws, x, throwError, destructive)
        IN  /\ probe.draws < MaxDraws
            /\ cuckoo' = a.filter
            /\ peer' = b.filter
            /\ call' = [NoCall EXCEPT !.op = "add", !.ret = a.ret,
                                      !.throwError = throwError,
                                      !.destructive = destructive]
            /\ probe' = [draws |-> a.draws, peerDraws |-> b.draws, peerRet |-> b.ret,
                         restored |-> IF r = NotRestored THEN r
                                      ELSE [filter |-> c.filter, draws |-> c.draws,
                                            ret |-> c.ret, after |-> r.after]]
            /\ UNCHANGED <<status, lossy, svars>>

\* the same remove on the three
DrawnRemoveAll ==
    \E x \in Elems :
        LET a == CuckooRemove(cuckoo, x)
            b == CuckooRemove(peer, x)
            r == probe.restored
            c == CuckooRemove(r.filter, x)
        IN  /\ cuckoo' = a.filter
            /\ peer' = b.filter
            /\ call' = [NoCall EXCEPT !.op = "remove", !.ret = a.ret]
            /\ probe' = [probe EXCEPT !.peerRet = b.ret,
                            !.restored = IF r = NotRestored THEN r
                                         ELSE [r EXCEPT !.filter = c.filter,
                                                        !.ret = c.ret]]
            /\ UNCHANGED <<status, lossy, svars>>

\* restored = CuckooFilter.fromJSON(filter.saveAsJSON()): the assignment of the
\* seed in fromJSON makes the generator of the restored filter anew.
\* `after` is the number of draws the filter had taken.
DrawnRestore ==
    /\ probe.restored = NotRestored
    /\ call' = [NoCall EXCEPT !.op = "fromJSON"]
    /\ probe' = [probe EXCEPT !.peerRet = "none",
                    !.restored = [filter |-> CuckooFromJSON(CuckooSaveAsJSON(cuckoo)),
                                  draws |-> 0, ret |-> "none", after |-> probe.draws]]
    /\ UNCHANGED <<cuckoo, peer, status, lossy, svars>>

DrawnNext == DrawnAddAll \/ DrawnRemoveAll \/ DrawnRestore

SpecCuckooDrawn == DrawnInit /\ [][DrawnNext]_vars

\* the second filter has the buckets and the return value of the first
TwinAgrees == peer = cuckoo /\ probe.peerRet = call.ret

====
